---------------------------- MODULE Spec2Model ----------------------------
(***************************************************************************)
(* Model of scripts/crop_image_interactively.py: the interactive crop      *)
(* session.  The module-level globals of the script are the variables; the *)
(* mouse callback click_and_crop and the key dispatch of main's loop are   *)
(* the actions.  Images are modelled by their shape <<h, w>> (the only     *)
(* thing the script reads of them); the preview scale is the exact         *)
(* rational <<num, den>> of the float the script computes, and round() is  *)
(* Python's round-half-to-even.  Optional values are <<>> for None and     *)
(* <<v>> for a value.                                                      *)
(***************************************************************************)
EXTENDS Integers, Sequences, FiniteSets, TLC

VARIABLES
    orig_image,      \* shape <<h, w>> of the loaded image, <<>> before load
    preview_image,   \* shape <<h, w>> of the preview, <<>> before load
    preview_scale,   \* <<num, den>>, the preview scale num/den
    points_preview,  \* the handles, a sequence of <<x, y>> in preview space
    active_idx,      \* <<>> (None) or <<i>>, i a 0-based index as in the script
    dragging,        \* BOOLEAN
    key,             \* the last key main's loop got from waitKey
    event,           \* the last mouse event delivered to click_and_crop
    pc,              \* position of main: "start", "draw", "wait", "exited"
    written,         \* the crops imwrite has written, <<x_min, x_max, y_min, y_max>>
    exit_code,       \* <<>> while running, <<code>> once the process has exited
    window,          \* TRUE while the window "Image" exists
    printed,         \* the last message printed
    image_path,      \* <<>> without a command-line argument, else <<path>>, the
                     \* path a sequence of characters
    written_to,      \* the file names imwrite has written, in step with written
    fn_call,         \* function harness: the call made, <<name, arguments>>
    fn_result        \* function harness: <<>> or <<value returned>>

vars == <<orig_image, preview_image, preview_scale, points_preview, active_idx,
          dragging, key, event, pc, written, exit_code, window, printed,
          image_path, written_to, fn_call, fn_result>>

imageVars == <<orig_image, preview_image, preview_scale>>
selectionVars == <<points_preview, active_idx, dragging>>
\* what no step of the session assigns: the command-line argument and the
\* variables of the function harness
fixedVars == <<image_path, fn_call, fn_result>>

-----------------------------------------------------------------------------
(* Program constants *)

MAX_PREVIEW_WIDTH == 1800
MAX_PREVIEW_HEIGHT == 900
HANDLE_RADIUS == 8

None == <<>>
Some(v) == <<v>>

-----------------------------------------------------------------------------
(* Bounds of the model: which image shapes and pointer positions are tried *)

NumShapes == 3
NumPointerPts == 8

\* Shapes <<h, w>> an image file can decode to.  The check uses the first
\* NumShapes of them.
CandidateShapes ==
    << <<3000, 4000>>,   \* scale 3/10, preview 1200 x 900
       <<4, 5>>,         \* fits the box: scale 1, preview 5 x 4
       <<2000, 1>>,      \* scale 9/20, preview width rounds to 0
       <<900, 3600>>,    \* scale 1/2, preview 1800 x 450
       <<1000, 1000>>,   \* scale 9/10, preview 900 x 900
       <<1200, 2400>> >> \* scale 3/4, preview 1800 x 900

\* Pointer positions <<x, y>> a mouse event can carry (window coordinates may
\* be negative or beyond the preview).  The check uses the first NumPointerPts.
CandidatePointerPts ==
    << <<100, 100>>, <<500, 400>>, <<110, 105>>, <<500, 100>>, <<-3, -3>>,
       <<2000, 2000>>, <<2, 1>>, <<100, 400>>, <<116, 100>>, <<117, 100>>,
       <<0, 0>>, <<1199, 899>> >>

Min(a, b) == IF a <= b THEN a ELSE b
Max(a, b) == IF a >= b THEN a ELSE b

Shapes == {CandidateShapes[i] : i \in 1..Min(NumShapes, Len(CandidateShapes))}
PointerPts ==
    {CandidatePointerPts[i] : i \in 1..Min(NumPointerPts, Len(CandidatePointerPts))}

-----------------------------------------------------------------------------
(* Arithmetic of the script *)

\* round replaced by truncation, int(n / d)
RoundDown(n, d) == n \div d

\* Python's round(n / d) for d > 0: to nearest, ties to the even integer.
RoundHalfEven(n, d) ==
    LET q == n \div d
        r == n % d
    IN  IF 2 * r < d THEN q
        ELSE IF 2 * r > d THEN q + 1
        ELSE IF q % 2 = 0 THEN q ELSE q + 1

\* min(a, b) of two positive rationals <<num, den>>
RatMin(a, b) == IF a[1] * b[2] < b[1] * a[2] THEN a ELSE b

\* compute_preview fitting the width only
compute_preview_WidthOnly(shape) ==
    LET h == shape[1]
        w == shape[2]
        scale == RatMin(<<MAX_PREVIEW_WIDTH, w>>, <<1, 1>>)
    IN  IF scale[1] < scale[2]
        THEN << <<RoundHalfEven(h * scale[1], scale[2]),
                  RoundHalfEven(w * scale[1], scale[2])>>, scale >>
        ELSE << shape, scale >>

\* compute_preview: <<preview shape, scale>> of an image of the given shape
compute_preview(shape) ==
    LET h == shape[1]
        w == shape[2]
        scale_w == RatMin(<<MAX_PREVIEW_WIDTH, w>>, <<1, 1>>)
        scale_h == RatMin(<<MAX_PREVIEW_HEIGHT, h>>, <<1, 1>>)
        scale == RatMin(scale_w, scale_h)
    IN  IF scale[1] < scale[2]
        THEN << <<RoundHalfEven(h * scale[1], scale[2]),
                  RoundHalfEven(w * scale[1], scale[2])>>, scale >>
        ELSE << shape, scale >>

\* preview_to_orig multiplying by the scale instead of dividing
preview_to_orig_Multiply(pt, scale) ==
    IF scale[1] <= 0 THEN pt
    ELSE << RoundHalfEven(pt[1] * scale[1], scale[2]),
            RoundHalfEven(pt[2] * scale[1], scale[2]) >>

\* preview_to_orig: a preview point in original-image coordinates
preview_to_orig(pt, scale) ==
    IF scale[1] <= 0 THEN pt
    ELSE << RoundHalfEven(pt[1] * scale[2], scale[1]),
            RoundHalfEven(pt[2] * scale[2], scale[1]) >>

\* clamp_point_to_image clamping to w and h instead of w - 1 and h - 1
clamp_point_to_image_OffByOne(x, y, img) ==
    LET h == img[1]
        w == img[2]
    IN  << Max(0, Min(x, w)), Max(0, Min(y, h)) >>

\* clamp_point_to_image clamping at 0 only
clamp_point_to_image_NoUpper(x, y, img) == << Max(0, x), Max(0, y) >>

\* clamp_point_to_image: <<x, y>> clamped into the image of shape img
clamp_point_to_image(x, y, img) ==
    LET h == img[1]
        w == img[2]
    IN  << Max(0, Min(x, w - 1)), Max(0, Min(y, h - 1)) >>

\* find_near_handle testing against HANDLE_RADIUS instead of HANDLE_RADIUS * 2
find_near_handle_SmallRadius(x, y) ==
    LET near(i) ==
            (x - points_preview[i][1]) * (x - points_preview[i][1])
          + (y - points_preview[i][2]) * (y - points_preview[i][2])
              <= HANDLE_RADIUS * HANDLE_RADIUS
        hits == {i \in 1..Len(points_preview) : near(i)}
    IN  IF hits = {} THEN None
        ELSE Some((CHOOSE i \in hits : \A j \in hits : i <= j) - 1)

\* find_near_handle returning the last handle within reach instead of the first
find_near_handle_LastHit(x, y) ==
    LET near(i) ==
            (x - points_preview[i][1]) * (x - points_preview[i][1])
          + (y - points_preview[i][2]) * (y - points_preview[i][2])
              <= (HANDLE_RADIUS * 2) * (HANDLE_RADIUS * 2)
        hits == {i \in 1..Len(points_preview) : near(i)}
    IN  IF hits = {} THEN None
        ELSE Some((CHOOSE i \in hits : \A j \in hits : i >= j) - 1)

\* find_near_handle: the 0-based index of the first handle within
\* HANDLE_RADIUS * 2 of (x, y), or None
find_near_handle(x, y) ==
    LET near(i) ==
            (x - points_preview[i][1]) * (x - points_preview[i][1])
          + (y - points_preview[i][2]) * (y - points_preview[i][2])
              <= (HANDLE_RADIUS * 2) * (HANDLE_RADIUS * 2)
        hits == {i \in 1..Len(points_preview) : near(i)}
    IN  IF hits = {} THEN None
        ELSE Some((CHOOSE i \in hits : \A j \in hits : i <= j) - 1)

\* One drawing call on the canvas: cv2.circle (p1 = p2 = centre) or
\* cv2.rectangle (p1, p2 the corners, radius 0); thickness -1 is filled.
DrawCall(op, p1, p2, radius, thickness) ==
    [op |-> op, p1 |-> p1, p2 |-> p2, radius |-> radius, thickness |-> thickness]

\* the circles draw_overlay draws for the handles from index i (1-based) on
RECURSIVE draw_handles(_)
draw_handles(i) ==
    IF i > Len(points_preview) THEN <<>>
    ELSE <<DrawCall("circle", points_preview[i], points_preview[i],
                    HANDLE_RADIUS, -1)>>
         \o (IF Some(i - 1) = active_idx
             THEN <<DrawCall("circle", points_preview[i], points_preview[i],
                             HANDLE_RADIUS + 3, 1)>>
             ELSE <<>>)
         \o draw_handles(i + 1)

\* draw_overlay that rings the first handle whenever some handle is active
draw_overlay_RingFirst ==
    [base |-> preview_image,
     calls |-> (IF Len(points_preview) > 0
                THEN <<DrawCall("circle", points_preview[1], points_preview[1],
                                HANDLE_RADIUS, -1)>>
                     \o (IF active_idx # None
                         THEN <<DrawCall("circle", points_preview[1],
                                         points_preview[1], HANDLE_RADIUS + 3, 1)>>
                         ELSE <<>>)
                     \o (IF Len(points_preview) > 1
                         THEN <<DrawCall("circle", points_preview[2],
                                         points_preview[2], HANDLE_RADIUS, -1)>>
                         ELSE <<>>)
                ELSE <<>>)
               \o (IF Len(points_preview) = 2
                   THEN <<DrawCall("rectangle", points_preview[1],
                                   points_preview[2], 0, 2)>>
                   ELSE <<>>)]

\* draw_overlay: the canvas handed to cv2.imshow, as the copy of the preview
\* it starts from and the drawing calls made on it, in order.
draw_overlay ==
    [base |-> preview_image,
     calls |-> draw_handles(1)
               \o (IF Len(points_preview) = 2
                   THEN <<DrawCall("rectangle", points_preview[1],
                                   points_preview[2], 0, 2)>>
                   ELSE <<>>)]


-----------------------------------------------------------------------------
(* Messages the script prints *)

MsgNone == ""
MsgUsage == "Usage: python crop_image.py <image_path>"
MsgLoadError == "Error: Unable to load image"
MsgResizeError == "cv2.error"
MsgNeedTwoPoints == "[WARN] Need exactly two points to crop."
MsgInvalidRegion == "[ERROR] Invalid crop region. No image saved."
MsgSaved == "[INFO] Cropped image saved"
MsgWriteFailed == "[ERROR] Failed to write the cropped image."
MsgQuit == "[INFO] Quitting without cropping."
MsgReset == "[INFO] Selection reset. Click two new points."
MsgIndexError == "IndexError: list assignment index out of range"

-----------------------------------------------------------------------------
(* Paths *)

NumPaths == 2

\* Image paths the command line can give, as sequences of characters.  The
\* check uses the first NumPaths of them.
CandidatePaths ==
    << <<"p", "h", "o", "t", "o", ".", "j", "p", "g">>,   \* photo.jpg
       <<"a", ".", "b", "/", "c">>,   \* a.b/c
       <<"x", ".", "t", ".", "g", "z">>,   \* x.t.gz
       <<".", "r", "c">>,   \* .rc
       <<"d", "/", ".", ".", "p">> >>   \* d/..p

Paths == {CandidatePaths[i] : i \in 1..Min(NumPaths, Len(CandidatePaths))}

\* str.rfind: the 1-based position of the last c in p, 0 when there is none
rfind(p, c) ==
    LET at == {i \in 1..Len(p) : p[i] = c}
    IN  IF at = {} THEN 0 ELSE CHOOSE i \in at : \A j \in at : j <= i

\* os.path.splitext (posix): <<base, ext>>, split at the last dot of the last
\* component unless only dots precede it there
splitext(p) ==
    LET sepIndex == rfind(p, "/")
        dotIndex == rfind(p, ".")
    IN  IF /\ dotIndex > sepIndex
           /\ \E k \in (sepIndex + 1)..(dotIndex - 1) : p[k] # "."
        THEN << SubSeq(p, 1, dotIndex - 1), SubSeq(p, dotIndex, Len(p)) >>
        ELSE << p, <<>> >>

\* the marker save_cropped puts between base and ext
CutMarker == <<"_", "c", "u", "t">>

\* new_filename with the marker appended to the whole path
new_filename_MarkerLast(path) == path \o CutMarker

\* new_filename of save_cropped: base + "_cut" + ext
new_filename(path) == splitext(path)[1] \o CutMarker \o splitext(path)[2]

-----------------------------------------------------------------------------
(* save_cropped *)

\* crop_rect taking the first handle as the top-left corner, unsorted
crop_rect_NoSort(p1, p2, scale, shape) ==
    LET p1o == preview_to_orig(p1, scale)
        p2o == preview_to_orig(p2, scale)
        h == shape[1]
        w == shape[2]
        x_min == Max(0, Min(p1o[1], w - 1))
        x_max == Max(0, Min(p2o[1], w))
        y_min == Max(0, Min(p1o[2], h - 1))
        y_max == Max(0, Min(p2o[2], h))
    IN  <<x_min, x_max, y_min, y_max>>

\* The crop rectangle <<x_min, x_max, y_min, y_max>> save_cropped computes from
\* two handles: mapped to the original, sorted per axis, clamped.
crop_rect(p1, p2, scale, shape) ==
    LET p1o == preview_to_orig(p1, scale)
        p2o == preview_to_orig(p2, scale)
        h == shape[1]
        w == shape[2]
        x_min == Max(0, Min(Min(p1o[1], p2o[1]), w - 1))
        x_max == Max(0, Min(Max(p1o[1], p2o[1]), w))
        y_min == Max(0, Min(Min(p1o[2], p2o[2]), h - 1))
        y_max == Max(0, Min(Max(p1o[2], p2o[2]), h))
    IN  <<x_min, x_max, y_min, y_max>>

\* save_cropped rejecting a region only when it is empty on both axes
save_cropped_BothAxes(imwrite_ok) ==
    IF Len(points_preview) # 2
    THEN [ok |-> FALSE, msg |-> MsgNeedTwoPoints, crop |-> <<>>, path |-> <<>>]
    ELSE LET r == crop_rect(points_preview[1], points_preview[2],
                            preview_scale, orig_image)
         IN  IF r[2] <= r[1] /\ r[4] <= r[3]
             THEN [ok |-> FALSE, msg |-> MsgInvalidRegion, crop |-> <<>>, path |-> <<>>]
             ELSE IF imwrite_ok
                  THEN [ok |-> TRUE, msg |-> MsgSaved, crop |-> <<r>>,
                        path |-> <<new_filename(image_path[1])>>]
                  ELSE [ok |-> FALSE, msg |-> MsgWriteFailed, crop |-> <<>>, path |-> <<>>]

\* save_cropped rejecting a region only when its corners are out of order
save_cropped_StrictCompare(imwrite_ok) ==
    IF Len(points_preview) # 2
    THEN [ok |-> FALSE, msg |-> MsgNeedTwoPoints, crop |-> <<>>, path |-> <<>>]
    ELSE LET r == crop_rect(points_preview[1], points_preview[2],
                            preview_scale, orig_image)
         IN  IF r[2] < r[1] \/ r[4] < r[3]
             THEN [ok |-> FALSE, msg |-> MsgInvalidRegion, crop |-> <<>>, path |-> <<>>]
             ELSE IF imwrite_ok
                  THEN [ok |-> TRUE, msg |-> MsgSaved, crop |-> <<r>>,
                        path |-> <<new_filename(image_path[1])>>]
                  ELSE [ok |-> FALSE, msg |-> MsgWriteFailed, crop |-> <<>>, path |-> <<>>]

\* save_cropped mapping the handles with scale 1 instead of preview_scale
save_cropped_UnitScale(imwrite_ok) ==
    IF Len(points_preview) # 2
    THEN [ok |-> FALSE, msg |-> MsgNeedTwoPoints, crop |-> <<>>, path |-> <<>>]
    ELSE LET r == crop_rect(points_preview[1], points_preview[2],
                            <<1, 1>>, orig_image)
         IN  IF r[2] <= r[1] \/ r[4] <= r[3]
             THEN [ok |-> FALSE, msg |-> MsgInvalidRegion, crop |-> <<>>, path |-> <<>>]
             ELSE IF imwrite_ok
                  THEN [ok |-> TRUE, msg |-> MsgSaved, crop |-> <<r>>,
                        path |-> <<new_filename(image_path[1])>>]
                  ELSE [ok |-> FALSE, msg |-> MsgWriteFailed, crop |-> <<>>, path |-> <<>>]

\* save_cropped rejecting a region less than two pixels wide or high
save_cropped_MinTwoPixels(imwrite_ok) ==
    IF Len(points_preview) # 2
    THEN [ok |-> FALSE, msg |-> MsgNeedTwoPoints, crop |-> <<>>, path |-> <<>>]
    ELSE LET r == crop_rect(points_preview[1], points_preview[2],
                            preview_scale, orig_image)
         IN  IF r[2] <= r[1] + 1 \/ r[4] <= r[3] + 1
             THEN [ok |-> FALSE, msg |-> MsgInvalidRegion, crop |-> <<>>, path |-> <<>>]
             ELSE IF imwrite_ok
                  THEN [ok |-> TRUE, msg |-> MsgSaved, crop |-> <<r>>,
                        path |-> <<new_filename(image_path[1])>>]
                  ELSE [ok |-> FALSE, msg |-> MsgWriteFailed, crop |-> <<>>, path |-> <<>>]

\* save_cropped: [ok, msg, crop], where ok is the value returned, msg the
\* message printed, crop the rectangles written (none or one) and path the
\* file names written (none or one).  imwrite_ok is what cv2.imwrite returns
\* when it is called; the image_path argument is main's image_path.
save_cropped(imwrite_ok) ==
    IF Len(points_preview) # 2
    THEN [ok |-> FALSE, msg |-> MsgNeedTwoPoints, crop |-> <<>>, path |-> <<>>]
    ELSE LET r == crop_rect(points_preview[1], points_preview[2],
                            preview_scale, orig_image)
         IN  IF r[2] <= r[1] \/ r[4] <= r[3]
             THEN [ok |-> FALSE, msg |-> MsgInvalidRegion, crop |-> <<>>, path |-> <<>>]
             ELSE IF imwrite_ok
                  THEN [ok |-> TRUE, msg |-> MsgSaved, crop |-> <<r>>,
                        path |-> <<new_filename(image_path[1])>>]
                  ELSE [ok |-> FALSE, msg |-> MsgWriteFailed, crop |-> <<>>, path |-> <<>>]

-----------------------------------------------------------------------------
(* main, up to the event loop *)

Init ==
    /\ orig_image = None
    /\ preview_image = None
    /\ preview_scale = <<1, 1>>
    /\ points_preview = <<>>
    /\ active_idx = None
    /\ dragging = FALSE
    /\ key = "none"
    /\ event = "none"
    /\ pc = "start"
    /\ written = <<>>
    /\ exit_code = None
    /\ window = FALSE
    /\ printed = MsgNone
    /\ image_path \in {None} \cup {Some(path) : path \in Paths}
    /\ written_to = <<>>
    /\ fn_call = None
    /\ fn_result = None

\* len(sys.argv) < 2: usage message, exit status 1
UsageExit ==
    /\ pc = "start"
    /\ image_path = None
    /\ printed' = MsgUsage
    /\ exit_code' = Some(1)
    /\ pc' = "exited"
    /\ UNCHANGED <<imageVars, selectionVars, key, event, written, written_to, window>>
    /\ UNCHANGED fixedVars

\* cv2.imread returns None: error message, exit status 1
LoadFail ==
    /\ pc = "start"
    /\ image_path # None
    /\ printed' = MsgLoadError
    /\ exit_code' = Some(1)
    /\ pc' = "exited"
    /\ UNCHANGED <<imageVars, selectionVars, key, event, written, written_to, window>>
    /\ UNCHANGED fixedVars

\* cv2.imread returns an image of the given shape; the preview is computed and
\* the window created.  cv2.resize raises on an empty target size, which ends
\* the process with an uncaught exception before the window exists.
Load(shape) ==
    /\ pc = "start"
    /\ image_path # None
    /\ orig_image' = shape
    /\ LET pv == compute_preview(shape)
       IN  IF pv[1][1] <= 0 \/ pv[1][2] <= 0
           THEN /\ printed' = MsgResizeError
                /\ exit_code' = Some(1)
                /\ pc' = "exited"
                /\ UNCHANGED <<preview_image, preview_scale, window>>
           ELSE /\ preview_image' = pv[1]
                /\ preview_scale' = pv[2]
                /\ window' = TRUE
                /\ pc' = "draw"
                /\ UNCHANGED <<printed, exit_code>>
    /\ UNCHANGED <<selectionVars, key, event, written, written_to>>
    /\ UNCHANGED fixedVars

\* draw_overlay at the top of each loop iteration, then waitKey
DrawOverlay ==
    /\ pc = "draw"
    /\ pc' = "wait"
    /\ UNCHANGED <<imageVars, selectionVars, key, event, written, written_to, exit_code,
                   window, printed>>
    /\ UNCHANGED fixedVars

-----------------------------------------------------------------------------
(* click_and_crop: the mouse callback, run inside waitKey *)

\* PointerDown that still appends when two handles exist
PointerDown_OffByOne(x, y) ==
    /\ pc = "wait"
    /\ event' = "down"
    /\ IF Len(points_preview) <= 2
       THEN /\ points_preview' =
                   Append(points_preview, clamp_point_to_image(x, y, preview_image))
            /\ active_idx' = Some(Len(points_preview') - 1)
            /\ dragging' = TRUE
       ELSE LET idx == find_near_handle(x, y)
            IN  IF idx # None
                THEN /\ active_idx' = idx
                     /\ dragging' = TRUE
                     /\ UNCHANGED points_preview
                ELSE UNCHANGED selectionVars
    /\ UNCHANGED <<imageVars, key, pc, written, written_to, exit_code, window, printed>>
    /\ UNCHANGED fixedVars

\* PointerDown that appends the click point as it came, unclamped
PointerDown_NoClamp(x, y) ==
    /\ pc = "wait"
    /\ event' = "down"
    /\ IF Len(points_preview) < 2
       THEN /\ points_preview' = Append(points_preview, <<x, y>>)
            /\ active_idx' = Some(Len(points_preview') - 1)
            /\ dragging' = TRUE
       ELSE LET idx == find_near_handle(x, y)
            IN  IF idx # None
                THEN /\ active_idx' = idx
                     /\ dragging' = TRUE
                     /\ UNCHANGED points_preview
                ELSE UNCHANGED selectionVars
    /\ UNCHANGED <<imageVars, key, pc, written, written_to, exit_code, window, printed>>
    /\ UNCHANGED fixedVars

\* PointerDown that starts a new selection when the press misses both handles
PointerDown_Restart(x, y) ==
    /\ pc = "wait"
    /\ event' = "down"
    /\ IF Len(points_preview) < 2
       THEN /\ points_preview' =
                   Append(points_preview, clamp_point_to_image(x, y, preview_image))
            /\ active_idx' = Some(Len(points_preview') - 1)
            /\ dragging' = TRUE
       ELSE LET idx == find_near_handle(x, y)
            IN  IF idx # None
                THEN /\ active_idx' = idx
                     /\ dragging' = TRUE
                     /\ UNCHANGED points_preview
                ELSE /\ points_preview' = <<clamp_point_to_image(x, y, preview_image)>>
                     /\ active_idx' = Some(0)
                     /\ dragging' = TRUE
    /\ UNCHANGED <<imageVars, key, pc, written, written_to, exit_code, window, printed>>
    /\ UNCHANGED fixedVars

\* EVENT_LBUTTONDOWN at (x, y)
PointerDown(x, y) ==
    /\ pc = "wait"
    /\ event' = "down"
    /\ IF Len(points_preview) < 2
       THEN /\ points_preview' =
                   Append(points_preview, clamp_point_to_image(x, y, preview_image))
            /\ active_idx' = Some(Len(points_preview') - 1)
            /\ dragging' = TRUE
       ELSE LET idx == find_near_handle(x, y)
            IN  IF idx # None
                THEN /\ active_idx' = idx
                     /\ dragging' = TRUE
                     /\ UNCHANGED points_preview
                ELSE UNCHANGED selectionVars
    /\ UNCHANGED <<imageVars, key, pc, written, written_to, exit_code, window, printed>>
    /\ UNCHANGED fixedVars

\* PointerMove that stores the pointer position as it came, unclamped
PointerMove_NoClamp(x, y) ==
    /\ pc = "wait"
    /\ event' = "move"
    /\ IF dragging /\ active_idx # None
       THEN IF active_idx[1] < Len(points_preview)
            THEN /\ points_preview' =
                        [points_preview EXCEPT ![active_idx[1] + 1] = <<x, y>>]
                 /\ UNCHANGED printed
            ELSE /\ printed' = MsgIndexError
                 /\ UNCHANGED points_preview
       ELSE UNCHANGED <<points_preview, printed>>
    /\ UNCHANGED <<imageVars, active_idx, dragging, key, pc, written, written_to, exit_code,
                   window>>
    /\ UNCHANGED fixedVars

\* EVENT_MOUSEMOVE at (x, y).  An index past the end of the list raises
\* IndexError in the callback, which the binding prints; nothing is assigned.
PointerMove(x, y) ==
    /\ pc = "wait"
    /\ event' = "move"
    /\ IF dragging /\ active_idx # None
       THEN IF active_idx[1] < Len(points_preview)
            THEN /\ points_preview' =
                        [points_preview EXCEPT ![active_idx[1] + 1] =
                              clamp_point_to_image(x, y, preview_image)]
                 /\ UNCHANGED printed
            ELSE /\ printed' = MsgIndexError
                 /\ UNCHANGED points_preview
       ELSE UNCHANGED <<points_preview, printed>>
    /\ UNCHANGED <<imageVars, active_idx, dragging, key, pc, written, written_to, exit_code,
                   window>>
    /\ UNCHANGED fixedVars

\* PointerUp that drops the handle but leaves dragging set
PointerUp_KeepDragging ==
    /\ pc = "wait"
    /\ event' = "up"
    /\ active_idx' = None
    /\ UNCHANGED <<imageVars, points_preview, dragging, key, pc, written, written_to,
                   exit_code, window, printed>>
    /\ UNCHANGED fixedVars

\* PointerUp that ends the drag but keeps the handle active
PointerUp_KeepActive ==
    /\ pc = "wait"
    /\ event' = "up"
    /\ dragging' = FALSE
    /\ UNCHANGED <<imageVars, points_preview, active_idx, key, pc, written,
                   written_to, exit_code, window, printed>>
    /\ UNCHANGED fixedVars

\* EVENT_LBUTTONUP
PointerUp ==
    /\ pc = "wait"
    /\ event' = "up"
    /\ dragging' = FALSE
    /\ active_idx' = None
    /\ UNCHANGED <<imageVars, points_preview, key, pc, written, written_to, exit_code,
                   window, printed>>
    /\ UNCHANGED fixedVars

-----------------------------------------------------------------------------
(* main: the key dispatch after waitKey returns *)

\* KeyQuit that prints the message and stays in the loop
KeyQuit_FallThrough ==
    /\ pc = "wait"
    /\ key' = "q"
    /\ printed' = MsgQuit
    /\ pc' = "draw"
    /\ UNCHANGED <<imageVars, selectionVars, event, written, written_to, exit_code, window>>
    /\ UNCHANGED fixedVars

\* KeyQuit that exits without destroyAllWindows
KeyQuit_KeepWindow ==
    /\ pc = "wait"
    /\ key' = "q"
    /\ printed' = MsgQuit
    /\ exit_code' = Some(0)
    /\ pc' = "exited"
    /\ UNCHANGED <<imageVars, selectionVars, event, written, written_to, window>>
    /\ UNCHANGED fixedVars

\* 'q' or ESC
KeyQuit ==
    /\ pc = "wait"
    /\ key' = "q"
    /\ printed' = MsgQuit
    /\ window' = FALSE
    /\ exit_code' = Some(0)
    /\ pc' = "exited"
    /\ UNCHANGED <<imageVars, selectionVars, event, written, written_to>>
    /\ UNCHANGED fixedVars

\* 'r'
KeyReset ==
    /\ pc = "wait"
    /\ key' = "r"
    /\ points_preview' = <<>>
    /\ printed' = MsgReset
    /\ pc' = "draw"
    /\ UNCHANGED <<imageVars, active_idx, dragging, event, written, written_to, exit_code,
                   window>>
    /\ UNCHANGED fixedVars

\* KeyConfirm that exits whatever save_cropped returns
KeyConfirm_IgnoreResult(imwrite_ok) ==
    /\ pc = "wait"
    /\ key' = "c"
    /\ LET res == save_cropped(imwrite_ok)
       IN  /\ printed' = res.msg
           /\ written' = written \o res.crop
           /\ written_to' = written_to \o res.path
           /\ window' = FALSE
           /\ exit_code' = Some(0)
           /\ pc' = "exited"
    /\ UNCHANGED <<imageVars, selectionVars, event>>
    /\ UNCHANGED fixedVars

\* KeyConfirm that clears the selection when save_cropped fails
KeyConfirm_ResetOnFailure(imwrite_ok) ==
    /\ pc = "wait"
    /\ key' = "c"
    /\ LET res == save_cropped(imwrite_ok)
       IN  /\ printed' = res.msg
           /\ written' = written \o res.crop
           /\ written_to' = written_to \o res.path
           /\ IF res.ok
              THEN /\ window' = FALSE
                   /\ exit_code' = Some(0)
                   /\ pc' = "exited"
                   /\ UNCHANGED selectionVars
              ELSE /\ pc' = "draw"
                   /\ points_preview' = <<>>
                   /\ active_idx' = None
                   /\ dragging' = FALSE
                   /\ UNCHANGED <<window, exit_code>>
    /\ UNCHANGED <<imageVars, event>>
    /\ UNCHANGED fixedVars

\* KeyConfirm that stays in the loop after a successful save
KeyConfirm_NoExit(imwrite_ok) ==
    /\ pc = "wait"
    /\ key' = "c"
    /\ LET res == save_cropped(imwrite_ok)
       IN  /\ printed' = res.msg
           /\ written' = written \o res.crop
           /\ written_to' = written_to \o res.path
           /\ pc' = "draw"
           /\ UNCHANGED <<window, exit_code>>
    /\ UNCHANGED <<imageVars, selectionVars, event>>
    /\ UNCHANGED fixedVars

\* KeyConfirm that ignores the key while a handle is being dragged
KeyConfirm_ReleaseFirst(imwrite_ok) ==
    /\ pc = "wait"
    /\ key' = "c"
    /\ IF dragging
       THEN /\ pc' = "draw"
            /\ UNCHANGED <<printed, written, written_to, window, exit_code>>
       ELSE LET res == save_cropped(imwrite_ok)
            IN  /\ printed' = res.msg
                /\ written' = written \o res.crop
                /\ written_to' = written_to \o res.path
                /\ IF res.ok
                   THEN /\ window' = FALSE
                        /\ exit_code' = Some(0)
                        /\ pc' = "exited"
                   ELSE /\ pc' = "draw"
                        /\ UNCHANGED <<window, exit_code>>
    /\ UNCHANGED <<imageVars, selectionVars, event>>
    /\ UNCHANGED fixedVars

\* 'c' or Enter
KeyConfirm(imwrite_ok) ==
    /\ pc = "wait"
    /\ key' = "c"
    /\ LET res == save_cropped(imwrite_ok)
       IN  /\ printed' = res.msg
           /\ written' = written \o res.crop
           /\ written_to' = written_to \o res.path
           /\ IF res.ok
              THEN /\ window' = FALSE
                   /\ exit_code' = Some(0)
                   /\ pc' = "exited"
              ELSE /\ pc' = "draw"
                   /\ UNCHANGED <<window, exit_code>>
    /\ UNCHANGED <<imageVars, selectionVars, event>>
    /\ UNCHANGED fixedVars

\* waitKey times out (255) or returns a key the loop does not handle
KeyOther ==
    /\ pc = "wait"
    /\ key' = "other"
    /\ pc' = "draw"
    /\ UNCHANGED <<imageVars, selectionVars, event, written, written_to, exit_code, window,
                   printed>>
    /\ UNCHANGED fixedVars

-----------------------------------------------------------------------------

Next ==
    \/ UsageExit
    \/ LoadFail
    \/ \E shape \in Shapes : Load(shape)
    \/ DrawOverlay
    \/ \E p \in PointerPts : PointerDown(p[1], p[2])
    \/ \E p \in PointerPts : PointerMove(p[1], p[2])
    \/ PointerUp
    \/ KeyQuit
    \/ KeyReset
    \/ \E imwrite_ok \in BOOLEAN : KeyConfirm(imwrite_ok)
    \/ KeyOther

Spec == Init /\ [][Next]_vars

-----------------------------------------------------------------------------
(* Function harness: one call of one function of the script on arguments   *)
(* drawn from bounded sets.  The globals a function reads are the session  *)
(* variables; fn_call holds the call and fn_result what it returned.       *)

NumQueryPts == 10
DimStep == 300
MaxDimSteps == 14
MaxSmallDim == 3
ClampMargin == 2
MaxScaleDen == 10
MaxSourceCoord == 20
EdgeMargin == 1

\* image heights and widths tried: the smallest ones, a coarse grid, and the
\* values around the two sides of the preview box
Dims ==
    (1..MaxSmallDim)
      \cup {k * DimStep : k \in 1..MaxDimSteps}
      \cup ((MAX_PREVIEW_HEIGHT - 1)..(MAX_PREVIEW_HEIGHT + 1))
      \cup ((MAX_PREVIEW_WIDTH - 1)..(MAX_PREVIEW_WIDTH + 1))

\* scales num/den in (0, 1]
Scales == {sc \in (1..MaxScaleDen) \X (1..MaxScaleDen) : sc[1] <= sc[2]}

\* pointer positions find_near_handle is queried at, and the handle positions
\* they give in a 1200 x 900 preview
QueryPts ==
    {CandidatePointerPts[i] : i \in 1..Min(NumQueryPts, Len(CandidatePointerPts))}
HandlePts == {clamp_point_to_image(p[1], p[2], <<900, 1200>>) : p \in QueryPts}

\* the lists of handles draw_overlay is called on: none, one or two handles.
\* With one handle active_idx is None or 0; after a reset during a drag the
\* list is empty and active_idx still 0 or 1.
HandleLists ==
    {<<>>} \cup {<<h>> : h \in HandlePts}
           \cup {<<h0, h1>> : h0 \in HandlePts, h1 \in HandlePts}

\* the images save_cropped is called on: those main gets a preview for
SaveShapes ==
    {shape \in Dims \X Dims :
        /\ compute_preview(shape)[1][1] >= 1
        /\ compute_preview(shape)[1][2] >= 1}

\* the handles save_cropped is called on: what click_and_crop stores for a
\* pointer left of or above the preview, one pixel inside it, and
\* EdgeMargin pixels beyond its right or bottom edge
EdgeHandles(shape) ==
    LET pv == compute_preview(shape)[1]
    IN  {clamp_point_to_image(x, y, pv) :
            x \in {0 - EdgeMargin, 1, pv[2] - 1 + EdgeMargin},
            y \in {0 - EdgeMargin, 1, pv[1] - 1 + EdgeMargin}}

\* the preview point of a source point: round(p * scale) per axis
source_to_preview(p, scale) ==
    << RoundHalfEven(p[1] * scale[1], scale[2]),
       RoundHalfEven(p[2] * scale[1], scale[2]) >>

InitFn ==
    /\ key = "none"
    /\ event = "none"
    /\ pc = "call"
    /\ written = <<>>
    /\ exit_code = None
    /\ window = FALSE
    /\ printed = MsgNone
    /\ written_to = <<>>
    /\ fn_result = None
    /\ \/ /\ points_preview = <<>>
          /\ \E h \in Dims, w \in Dims :
                fn_call = <<"compute_preview", <<h, w>> >>
       \/ /\ points_preview = <<>>
          /\ \E c \in 0..MaxSourceCoord, sc \in Scales :
                fn_call = <<"round_trip", <<c, MaxSourceCoord - c>>, sc>>
       \/ /\ points_preview = <<>>
          /\ \E h \in 1..MaxSmallDim, w \in 1..MaxSmallDim :
             \E x \in (0 - ClampMargin)..(MaxSmallDim + ClampMargin),
                y \in (0 - ClampMargin)..(MaxSmallDim + ClampMargin) :
                fn_call = <<"clamp_point_to_image", x, y, <<h, w>> >>
       \/ \E h0 \in HandlePts, h1 \in HandlePts, q \in QueryPts :
             /\ points_preview = <<h0, h1>>
             /\ fn_call = <<"find_near_handle", q[1], q[2]>>
       \/ \E pts \in HandleLists, a \in {None, Some(0), Some(1)} :
             /\ Len(pts) = 1 => a # Some(1)
             /\ points_preview = pts
             /\ fn_call = <<"draw_overlay", a>>
       \/ \E shape \in SaveShapes :
          \E h0 \in EdgeHandles(shape), h1 \in EdgeHandles(shape) :
             /\ points_preview = <<h0, h1>>
             /\ fn_call = <<"save_cropped", shape>>
    /\ IF fn_call[1] = "save_cropped"
       THEN /\ orig_image = fn_call[2]
            /\ preview_image = compute_preview(fn_call[2])[1]
            /\ preview_scale = compute_preview(fn_call[2])[2]
            /\ image_path = Some(CandidatePaths[1])
       ELSE /\ orig_image = None
            /\ preview_image =
                  IF fn_call[1] = "draw_overlay" THEN <<900, 1200>> ELSE None
            /\ preview_scale = <<1, 1>>
            /\ image_path = None
    /\ IF fn_call[1] = "draw_overlay"
       THEN /\ active_idx = fn_call[2]
            /\ dragging = (fn_call[2] # None)
       ELSE /\ active_idx = None
            /\ dragging = FALSE

harnessFrame ==
    <<imageVars, selectionVars, key, event, written, exit_code, window, printed,
      image_path, written_to, fn_call>>

CallComputePreview ==
    /\ pc = "call"
    /\ fn_call[1] = "compute_preview"
    /\ fn_result' = Some(compute_preview(fn_call[2]))
    /\ pc' = "returned"
    /\ UNCHANGED harnessFrame

\* a source point taken to preview space and back
CallRoundTrip ==
    /\ pc = "call"
    /\ fn_call[1] = "round_trip"
    /\ fn_result' = Some(preview_to_orig(source_to_preview(fn_call[2], fn_call[3]),
                                         fn_call[3]))
    /\ pc' = "returned"
    /\ UNCHANGED harnessFrame

CallClampPoint ==
    /\ pc = "call"
    /\ fn_call[1] = "clamp_point_to_image"
    /\ fn_result' = Some(clamp_point_to_image(fn_call[2], fn_call[3], fn_call[4]))
    /\ pc' = "returned"
    /\ UNCHANGED harnessFrame

CallFindNearHandle ==
    /\ pc = "call"
    /\ fn_call[1] = "find_near_handle"
    /\ fn_result' = Some(find_near_handle(fn_call[2], fn_call[3]))
    /\ pc' = "returned"
    /\ UNCHANGED harnessFrame

CallDrawOverlay ==
    /\ pc = "call"
    /\ fn_call[1] = "draw_overlay"
    /\ fn_result' = Some(draw_overlay)
    /\ pc' = "returned"
    /\ UNCHANGED harnessFrame

\* save_cropped(image_path); imwrite_ok is what cv2.imwrite returns
CallSaveCropped ==
    /\ pc = "call"
    /\ fn_call[1] = "save_cropped"
    /\ \E imwrite_ok \in BOOLEAN :
          LET res == save_cropped(imwrite_ok)
          IN  /\ fn_result' = Some(res.ok)
              /\ printed' = res.msg
              /\ written' = written \o res.crop
              /\ written_to' = written_to \o res.path
    /\ pc' = "returned"
    /\ UNCHANGED <<imageVars, selectionVars, key, event, exit_code, window,
                   image_path, fn_call>>

NextFn ==
    \/ CallComputePreview
    \/ CallRoundTrip
    \/ CallClampPoint
    \/ CallFindNearHandle
    \/ CallDrawOverlay
    \/ CallSaveCropped

SpecFn == InitFn /\ [][NextFn]_vars

-----------------------------------------------------------------------------
(* Properties *)

\* C1: every crop written is a non-empty region inside the source:
\* 0 <= x_min < x_max <= W and 0 <= y_min < y_max <= H.
C1_WrittenCropInsideSource ==
    \A i \in 1..Len(written) :
        /\ 0 <= written[i][1]
        /\ written[i][1] < written[i][2]
        /\ written[i][2] <= orig_image[2]
        /\ 0 <= written[i][3]
        /\ written[i][3] < written[i][4]
        /\ written[i][4] <= orig_image[1]

\* a crop has been written from a downscaled preview
C1_Witness ==
    /\ Len(written) = 1
    /\ preview_scale[1] < preview_scale[2]
    /\ key = "c"

\* C2: the selection never holds more than two handles.
C2_AtMostTwoHandles == Len(points_preview) <= 2

\* a button press arrived with two handles present and none of them near: no
\* handle became active and none was appended
C2_Witness ==
    /\ Len(points_preview) = 2
    /\ event = "down"
    /\ active_idx = None

\* C3: right after a reset key the selection is empty, no handle is active and
\* dragging is off.
C3_ResetClearsAll ==
    (key = "r" /\ pc = "draw") =>
        (points_preview = <<>> /\ active_idx = None /\ dragging = FALSE)

\* C4: an active handle index always names a handle of the selection.
C4_ActiveHandleExists ==
    active_idx # None => active_idx[1] < Len(points_preview)

\* C5: dragging implies an active handle.
C5_DraggingHasActive == dragging => active_idx # None

\* the second handle is being dragged
C5_Witness ==
    /\ dragging
    /\ active_idx = Some(1)
    /\ event = "move"

\* C6: a confirm key with fewer than two handles prints the need-two-points
\* warning, writes nothing, keeps the session in its loop and leaves the
\* selection as it was.
C6_ConfirmIncomplete ==
    [][(pc = "wait" /\ pc' # "wait" /\ key' = "c" /\ Len(points_preview) < 2)
        => /\ printed' = MsgNeedTwoPoints
           /\ written' = written
           /\ pc' = "draw"
           /\ exit_code' = None
           /\ UNCHANGED selectionVars]_vars

\* confirm was pressed with one handle placed; the session goes on
C6_Witness ==
    /\ key = "c"
    /\ pc = "draw"
    /\ Len(points_preview) = 1
    /\ printed = MsgNeedTwoPoints

\* C7: after a confirm key with both handles at the same preview point, the
\* invalid-region error was printed, nothing was written and the session goes on.
C7_IdenticalHandlesDegenerate ==
    (/\ key = "c"
     /\ pc \in {"draw", "exited"}
     /\ Len(points_preview) = 2
     /\ points_preview[1] = points_preview[2])
        => (printed = MsgInvalidRegion /\ written = <<>> /\ pc = "draw")

\* confirm was pressed with both handles at the same point of a downscaled
\* preview
C7_Witness ==
    /\ key = "c"
    /\ pc = "draw"
    /\ Len(points_preview) = 2
    /\ points_preview[1] = points_preview[2]
    /\ preview_scale[1] < preview_scale[2]

\* C8: a confirm key whose commit fails (need-two-points, invalid region or
\* write failure) leaves the handles, the active handle and dragging as they
\* were and the session in its loop with its window.
C8_FailedCommitKeepsState ==
    [][(/\ pc = "wait" /\ pc' # "wait" /\ key' = "c"
        /\ printed' \in {MsgNeedTwoPoints, MsgInvalidRegion, MsgWriteFailed})
        => /\ UNCHANGED selectionVars
           /\ written' = written
           /\ pc' = "draw"
           /\ exit_code' = None
           /\ window' = window]_vars

\* the encoder refused the write while a handle was being dragged; the session
\* goes on with the selection intact
C8_Witness ==
    /\ key = "c"
    /\ pc = "draw"
    /\ printed = MsgWriteFailed
    /\ Len(points_preview) = 2
    /\ dragging

\* C9: once the quit key was pressed the process has exited with status 0, the
\* last thing printed is the quit message and no file was written.
C9_QuitExitsWithoutWriting ==
    key = "q" =>
        /\ pc = "exited"
        /\ exit_code = Some(0)
        /\ printed = MsgQuit
        /\ written = <<>>

\* quit was pressed with a complete selection, mid-drag
C9_Witness ==
    /\ key = "q"
    /\ Len(points_preview) = 2
    /\ dragging

\* C10: if a file was written, it is the only one, it was written by a confirm
\* key with exactly two handles, and the process has exited.
C10_WriteOnlyByConfirmThenExit ==
    written # <<>> =>
        /\ Len(written) = 1
        /\ key = "c"
        /\ printed = MsgSaved
        /\ Len(points_preview) = 2
        /\ pc = "exited"
        /\ exit_code = Some(0)

\* a file was written and the process has exited
C10_Witness ==
    /\ Len(written) = 1
    /\ pc = "exited"

\* C11: of a session given an image path, the exit status is 0 exactly when
\* it ended by a saved crop or by the quit key, and nonzero exactly when the
\* image could not be loaded; after a load failure no event was dispatched.
C11_ExitCodes ==
    (pc = "exited" /\ image_path # None) =>
        /\ (exit_code = Some(0)) <=> (printed \in {MsgSaved, MsgQuit})
        /\ (exit_code # Some(0)) <=> (orig_image = None)
        /\ (orig_image = None) => (~window /\ event = "none" /\ key = "none")

\* C12: the file written is the source path with "_cut" put between its base
\* and its extension: same directory, same extension, never the source path
\* itself; photo.jpg gives photo_cut.jpg.
C12_OutputPathFromSourcePath ==
    \A i \in 1..Len(written_to) :
        LET src == image_path[1]
            out == written_to[i]
            first == rfind(src, "/") + 1
            hasExt == \E d \in (first + 1)..Len(src) :
                          src[d] = "." /\ \E k \in first..(d - 1) : src[k] # "."
        IN  /\ out # src
            /\ src = <<"p", "h", "o", "t", "o", ".", "j", "p", "g">>
                 => out = <<"p", "h", "o", "t", "o", "_", "c", "u", "t",
                            ".", "j", "p", "g">>
            /\ \E k \in 0..Len(src) :
                 LET ext == SubSeq(src, k + 1, Len(src))
                 IN  /\ out = SubSeq(src, 1, k) \o <<"_", "c", "u", "t">> \o ext
                     /\ \A j \in 1..Len(ext) :
                            ext[j] # "/" /\ (ext[j] = "." <=> j = 1)
                     /\ (ext # <<>>) <=> hasExt

\* a crop of a.b/c, a path without extension, has been written
C12_Witness ==
    /\ Len(written_to) = 1
    /\ image_path = Some(<<"a", ".", "b", "/", "c">>)

\* C13: when the process has exited, no window exists.
C13_NoWindowAfterExit == pc = "exited" => ~window

\* the session ended by the quit key after its window had been created
C13_Witness ==
    /\ pc = "exited"
    /\ key = "q"
    /\ preview_image # None
    /\ ~window

C14_PreviewScale ==
    (pc = "returned" /\ fn_call[1] = "compute_preview") =>
        LET h == fn_call[2][1]
            w == fn_call[2][2]
            sc == fn_result[1][2]
        IN  /\ 0 < sc[1] /\ 0 < sc[2] /\ sc[1] <= sc[2]
            /\ sc[1] * w <= MAX_PREVIEW_WIDTH * sc[2]
            /\ sc[1] * h <= MAX_PREVIEW_HEIGHT * sc[2]
            /\ \/ sc[1] * w = MAX_PREVIEW_WIDTH * sc[2]
               \/ sc[1] * h = MAX_PREVIEW_HEIGHT * sc[2]
               \/ sc[1] = sc[2]
            /\ (sc[1] = sc[2]) <=>
                  (w <= MAX_PREVIEW_WIDTH /\ h <= MAX_PREVIEW_HEIGHT)

\* compute_preview returned a scale below 1 for an image that is narrow enough
\* but too high
C14_Witness ==
    /\ pc = "returned"
    /\ fn_call[1] = "compute_preview"
    /\ fn_call[2][2] <= MAX_PREVIEW_WIDTH
    /\ fn_result[1][2][1] < fn_result[1][2][2]

\* C16 as claimed: a source point taken to preview space and back differs from
\* itself by at most 1 per axis, for every scale in (0, 1].
C16_RoundTripWithinOne ==
    (pc = "returned" /\ fn_call[1] = "round_trip") =>
        \A a \in 1..2 :
            /\ fn_result[1][a] - fn_call[2][a] <= 1
            /\ fn_call[2][a] - fn_result[1][a] <= 1

\* C16 as amended: the round trip differs from the source point by at most
\* 1/2 + 1/(2 * scale) per axis.
C16_RoundTripWithinScaleBound ==
    (pc = "returned" /\ fn_call[1] = "round_trip") =>
        \A a \in 1..2 :
            /\ 2 * fn_call[3][1] * (fn_result[1][a] - fn_call[2][a])
                  <= fn_call[3][1] + fn_call[3][2]
            /\ 2 * fn_call[3][1] * (fn_call[2][a] - fn_result[1][a])
                  <= fn_call[3][1] + fn_call[3][2]

\* a round trip at a scale below 1/2 came back 2 or more away
C16_Witness ==
    /\ pc = "returned"
    /\ fn_call[1] = "round_trip"
    /\ 2 * fn_call[3][1] < fn_call[3][2]
    /\ fn_result[1][1] - fn_call[2][1] >= 2

\* C17: clamp_point_to_image returns a point of [0, W-1] x [0, H-1] for every
\* integer point, and the point itself when it already lies there.
C17_ClampIntoImage ==
    (pc = "returned" /\ fn_call[1] = "clamp_point_to_image") =>
        LET x == fn_call[2]
            y == fn_call[3]
            h == fn_call[4][1]
            w == fn_call[4][2]
            r == fn_result[1]
        IN  /\ 0 <= r[1] /\ r[1] <= w - 1
            /\ 0 <= r[2] /\ r[2] <= h - 1
            /\ (0 <= x /\ x <= w - 1 /\ 0 <= y /\ y <= h - 1) => r = <<x, y>>

\* a point left of the image and below it has been clamped
C17_Witness ==
    /\ pc = "returned"
    /\ fn_call[1] = "clamp_point_to_image"
    /\ fn_call[2] < 0
    /\ fn_call[3] > fn_call[4][1] - 1
    /\ fn_result[1] = <<0, fn_call[4][1] - 1>>

\* C18 as claimed: a query at the point of a handle returns that handle, a
\* query farther than 2 x HANDLE_RADIUS from both handles returns none, and a
\* handle is returned exactly when its squared distance to the query is at
\* most the squared grab radius.
C18_FindHandleNear ==
    (pc = "returned" /\ fn_call[1] = "find_near_handle") =>
        LET dist2(i) ==
                (fn_call[2] - points_preview[i][1]) * (fn_call[2] - points_preview[i][1])
              + (fn_call[3] - points_preview[i][2]) * (fn_call[3] - points_preview[i][2])
            r2 == (HANDLE_RADIUS * 2) * (HANDLE_RADIUS * 2)
        IN  /\ \A i \in 1..Len(points_preview) :
                   points_preview[i] = <<fn_call[2], fn_call[3]>>
                      => fn_result[1] = Some(i - 1)
            /\ (\A i \in 1..Len(points_preview) : dist2(i) > r2)
                   => fn_result[1] = None
            /\ \A i \in 1..Len(points_preview) :
                   (fn_result[1] = Some(i - 1)) <=> (dist2(i) <= r2)

\* C18 as amended: the handle returned is the first-created one whose squared
\* distance to the query is at most the squared grab radius, and none when no
\* handle is that near; a query at the point of a handle returns that handle
\* unless an earlier handle is within the radius too.
C18_FindFirstHandleNear ==
    (pc = "returned" /\ fn_call[1] = "find_near_handle") =>
        LET dist2(i) ==
                (fn_call[2] - points_preview[i][1]) * (fn_call[2] - points_preview[i][1])
              + (fn_call[3] - points_preview[i][2]) * (fn_call[3] - points_preview[i][2])
            r2 == (HANDLE_RADIUS * 2) * (HANDLE_RADIUS * 2)
            first(i) == dist2(i) <= r2 /\ \A j \in 1..(i - 1) : dist2(j) > r2
        IN  /\ (fn_result[1] = None)
                   <=> (\A i \in 1..Len(points_preview) : dist2(i) > r2)
            /\ \A i \in 1..Len(points_preview) :
                   (fn_result[1] = Some(i - 1)) <=> first(i)
            /\ \A i \in 1..Len(points_preview) :
                   (/\ points_preview[i] = <<fn_call[2], fn_call[3]>>
                    /\ \A j \in 1..(i - 1) : dist2(j) > r2)
                      => fn_result[1] = Some(i - 1)

\* a query at the point of the second handle, with the first handle at another
\* point within the radius, returned the first handle
C18_Witness ==
    /\ pc = "returned"
    /\ fn_call[1] = "find_near_handle"
    /\ points_preview[2] = <<fn_call[2], fn_call[3]>>
    /\ points_preview[1] # points_preview[2]
    /\ fn_result[1] = Some(0)

\* C19: a button release leaves dragging off and no handle active and moves
\* no handle; a release while not dragging changes nothing of the session.
C19_PointerUpReleases ==
    [][(pc = "wait" /\ pc' = "wait" /\ event' = "up")
        => /\ dragging' = FALSE
           /\ active_idx' = None
           /\ points_preview' = points_preview
           /\ ~dragging =>
                 UNCHANGED <<selectionVars, imageVars, key, written, written_to,
                             exit_code, window, printed, image_path>>]_vars

\* the button was released over a complete selection
C19_Witness ==
    /\ pc = "wait"
    /\ event = "up"
    /\ Len(points_preview) = 2
    /\ ~dragging
    /\ active_idx = None

\* C20: a button press with fewer than two handles appends the click point,
\* clamped into the preview, as a new handle, makes it the active handle and
\* sets dragging; with two handles it makes a handle within the grab radius
\* active and sets dragging without moving a point, and changes nothing when no
\* handle is within the radius.
C20_PointerDownEffect ==
    [][(pc = "wait" /\ pc' = "wait" /\ event' = "down") =>
       \A p \in PointerPts :
        PointerDown(p[1], p[2]) =>
            LET cx == IF p[1] < 0 THEN 0
                      ELSE IF p[1] > preview_image[2] - 1
                           THEN preview_image[2] - 1 ELSE p[1]
                cy == IF p[2] < 0 THEN 0
                      ELSE IF p[2] > preview_image[1] - 1
                           THEN preview_image[1] - 1 ELSE p[2]
                near(i) ==
                    (p[1] - points_preview[i][1]) * (p[1] - points_preview[i][1])
                  + (p[2] - points_preview[i][2]) * (p[2] - points_preview[i][2])
                      <= 16 * 16
            IN  /\ Len(points_preview) < 2 =>
                    /\ points_preview' = Append(points_preview, <<cx, cy>>)
                    /\ active_idx' = Some(Len(points_preview))
                    /\ dragging' = TRUE
                /\ (Len(points_preview) >= 2 /\ \E i \in 1..2 : near(i)) =>
                    /\ points_preview' = points_preview
                    /\ active_idx' # None
                    /\ near(active_idx'[1] + 1)
                    /\ dragging' = TRUE
                /\ (Len(points_preview) >= 2 /\ ~\E i \in 1..2 : near(i)) =>
                    UNCHANGED selectionVars
                /\ UNCHANGED <<imageVars, key, pc, written, written_to,
                               exit_code, window, printed, image_path>>]_vars

\* a press grabbed the first handle of a complete selection
C20_Witness ==
    /\ event = "down"
    /\ Len(points_preview) = 2
    /\ active_idx = Some(0)
    /\ dragging

\* C21: a pointer move while not dragging changes nothing of the session; a
\* move while dragging sets the active handle, and only it, to the pointer
\* position clamped into the preview, and leaves the other handle, the number
\* of handles, active_idx and dragging as they were.
C21_PointerMoveEffect ==
    [][(pc = "wait" /\ pc' = "wait" /\ event' = "move") =>
       \A p \in PointerPts :
        PointerMove(p[1], p[2]) =>
            LET cx == IF p[1] < 0 THEN 0
                      ELSE IF p[1] > preview_image[2] - 1
                           THEN preview_image[2] - 1 ELSE p[1]
                cy == IF p[2] < 0 THEN 0
                      ELSE IF p[2] > preview_image[1] - 1
                           THEN preview_image[1] - 1 ELSE p[2]
            IN  /\ ~dragging =>
                    UNCHANGED <<selectionVars, imageVars, key, written, written_to,
                                exit_code, window, printed, image_path>>
                /\ dragging =>
                    /\ active_idx # None
                    /\ active_idx[1] < Len(points_preview)
                    /\ points_preview' =
                          [points_preview EXCEPT ![active_idx[1] + 1] = <<cx, cy>>]
                    /\ active_idx' = active_idx
                    /\ dragging' = dragging]_vars

\* C22: every stored handle lies inside the preview, 0 <= x <= width - 1 and
\* 0 <= y <= height - 1, whatever coordinates the mouse events carried.
C22_HandlesInsidePreview ==
    \A i \in 1..Len(points_preview) :
        /\ 0 <= points_preview[i][1]
        /\ points_preview[i][1] <= preview_image[2] - 1
        /\ 0 <= points_preview[i][2]
        /\ points_preview[i][2] <= preview_image[1] - 1

\* a handle was dragged with the pointer beyond the right and bottom edges of
\* the preview and rests on its last column and row, the other one having been
\* placed with the pointer left of and above the preview
C22_Witness ==
    /\ event = "move"
    /\ Len(points_preview) = 2
    /\ points_preview[1] = <<0, 0>>
    /\ points_preview[2] = <<preview_image[2] - 1, preview_image[1] - 1>>
    /\ preview_image = <<900, 1200>>
    /\ dragging

\* C23: a confirm key arriving while two handles exist and one of them is being
\* dragged is handled like any other confirm: save_cropped runs on the handle
\* positions of that moment, which the confirm does not change, and with a
\* working imwrite its crop is written and the session exits with status 0
\* unless the region is empty.
C23_ConfirmMidDrag ==
    [][(/\ pc = "wait" /\ pc' # "wait" /\ key' = "c"
        /\ Len(points_preview) = 2 /\ dragging)
       => LET r == crop_rect(points_preview[1], points_preview[2],
                             preview_scale, orig_image)
              degenerate == r[2] <= r[1] \/ r[4] <= r[3]
          IN  /\ UNCHANGED selectionVars
              /\ printed' \in {MsgInvalidRegion, MsgSaved, MsgWriteFailed}
              /\ printed' = MsgInvalidRegion <=> degenerate
              /\ printed' = MsgSaved =>
                    /\ written' = Append(written, r)
                    /\ pc' = "exited"
                    /\ exit_code' = Some(0)
              /\ printed' # MsgSaved =>
                    /\ written' = written
                    /\ pc' = "draw"]_vars

\* a crop was written by a confirm given while the second handle was held
C23_Witness ==
    /\ pc = "exited"
    /\ key = "c"
    /\ printed = MsgSaved
    /\ dragging
    /\ active_idx = Some(1)
    /\ Len(points_preview) = 2
    /\ Len(written) = 1

\* C24: an event that changes points_preview, active_idx or dragging is
\* followed by draw_overlay before the next input event is dispatched, unless
\* the session ends.  Inside waitKey ("wait") a mouse event can be dispatched
\* at any time and draw_overlay cannot run; at "draw" the only step is
\* draw_overlay, which draws the globals as they are.  So the property is that
\* a step changing one of the three leaves the loop at "draw" or exited.
C24_ChangeThenRedraw ==
    [][(pc = "wait" /\ selectionVars' # selectionVars)
        => pc' \in {"draw", "exited"}]_vars

\* C25: the canvas draw_overlay shows starts from the preview and carries one
\* filled marker per handle, at the handle's position and in list order, one
\* highlight ring, around the handle whose index is active_idx, when there is
\* such a handle and none otherwise, and the rectangle spanned by the two
\* handles if and only if there are exactly two; drawing it changes neither
\* points_preview, active_idx, dragging nor the preview image.
C25_DrawPlan ==
    [][(pc = "call" /\ fn_call[1] = "draw_overlay" /\ pc' = "returned") =>
         LET canvas == fn_result'[1]
             markers == SelectSeq(canvas.calls,
                          LAMBDA c : c.op = "circle" /\ c.thickness = -1)
             rings == SelectSeq(canvas.calls,
                          LAMBDA c : c.op = "circle" /\ c.thickness # -1)
             rects == SelectSeq(canvas.calls, LAMBDA c : c.op = "rectangle")
             n == Len(points_preview)
         IN  /\ canvas.base = preview_image
             /\ Len(markers) = n
             /\ \A i \in 1..n : markers[i].p1 = points_preview[i]
             /\ Len(rings) = Cardinality({i \in 1..n : active_idx = Some(i - 1)})
             /\ \A i \in 1..Len(canvas.calls) :
                   (canvas.calls[i].op = "circle" /\ canvas.calls[i].thickness # -1)
                   => /\ i > 1
                      /\ canvas.calls[i - 1] = markers[active_idx[1] + 1]
                      /\ canvas.calls[i].p1 = points_preview[active_idx[1] + 1]
                      /\ Len(SelectSeq(SubSeq(canvas.calls, 1, i - 1),
                               LAMBDA c : c.op = "circle" /\ c.thickness = -1))
                           = active_idx[1] + 1
             /\ Len(rects) = (IF n = 2 THEN 1 ELSE 0)
             /\ \A i \in 1..Len(rects) :
                   /\ rects[i].p1 = points_preview[1]
                   /\ rects[i].p2 = points_preview[2]
             /\ Len(canvas.calls) = Len(markers) + Len(rings) + Len(rects)
             /\ UNCHANGED <<selectionVars, imageVars>>]_vars

\* draw_overlay has drawn two handles at different places with the second one
\* active: two markers, the ring around the second, and the rectangle
C25_Witness ==
    /\ pc = "returned"
    /\ fn_call[1] = "draw_overlay"
    /\ Len(points_preview) = 2
    /\ points_preview[1] # points_preview[2]
    /\ active_idx = Some(1)
    /\ Len(fn_result[1].calls) = 4
    /\ fn_result[1].calls[3].p1 = points_preview[2]
    /\ fn_result[1].calls[3].radius = HANDLE_RADIUS + 3
    /\ fn_result[1].calls[4].op = "rectangle"

\* C26: once the image is loaded, no step (mouse event, key, redraw, save,
\* successful or not) changes orig_image, preview_image or preview_scale, and
\* a crop that is written is computed with the scale compute_preview gave for
\* the image at load.
C26_ImagesFixedAfterLoad ==
    [][pc # "start" =>
         /\ UNCHANGED imageVars
         /\ written' # written =>
               /\ key' = "c"
               /\ Len(points_preview) = 2
               /\ written' =
                     Append(written,
                            crop_rect(points_preview[1], points_preview[2],
                                      compute_preview(orig_image)[2], orig_image))]_vars

\* a crop of a downscaled image was written after a press, a drag, a release,
\* a failed save and redraws
C26_Witness ==
    /\ pc = "exited"
    /\ printed = MsgSaved
    /\ event = "up"
    /\ orig_image = <<3000, 4000>>
    /\ preview_image = <<900, 1200>>
    /\ preview_scale = compute_preview(orig_image)[2]
    /\ preview_scale[1] * 10 = preview_scale[2] * 3
    /\ Len(written) = 1

\* C27: with two handles and an imwrite that works, save_cropped succeeds and
\* writes the crop if and only if the handles differ in their preview x and in
\* their preview y; two handles with the same x or the same y give the
\* invalid-region error and nothing is written.
C27_SuccessIffHandlesDiffer ==
    (pc = "returned" /\ fn_call[1] = "save_cropped" /\ printed # MsgWriteFailed)
    => LET p1 == points_preview[1]
           p2 == points_preview[2]
           differ == p1[1] # p2[1] /\ p1[2] # p2[2]
       IN  /\ fn_result = Some(differ)
           /\ differ => (printed = MsgSaved /\ Len(written) = 1)
           /\ ~differ => (printed = MsgInvalidRegion /\ written = <<>>)

\* a crop was written for two handles one preview pixel apart on both axes in
\* a downscaled preview
C27_Witness ==
    /\ pc = "returned"
    /\ fn_call[1] = "save_cropped"
    /\ fn_result = Some(TRUE)
    /\ points_preview = << <<1, 1>>, <<0, 0>> >>
    /\ preview_scale[1] < preview_scale[2]
    /\ printed = MsgSaved

\* C28: the outcome of a confirm does not depend on which handle was created
\* first: with the two handles exchanged, save_cropped prints the same message
\* and returns the same value, and writes the same rectangle to the same file
\* when it writes one.
C28_HandleOrderIrrelevant ==
    [][(pc = "wait" /\ pc' # "wait" /\ key' = "c" /\ Len(points_preview) = 2) =>
         LET p1 == points_preview[1]
             p2 == points_preview[2]
             swapped == crop_rect(p2, p1, preview_scale, orig_image)
             rejected == swapped[2] <= swapped[1] \/ swapped[4] <= swapped[3]
         IN  /\ printed' = MsgInvalidRegion <=> rejected
             /\ written' # written =>
                   /\ written' = Append(written, swapped)
                   /\ written_to' = Append(written_to, new_filename(image_path[1]))
             /\ (pc' = "exited") <=> (~rejected /\ printed' = MsgSaved)]_vars

\* a crop was written although the second handle lies left of and above the
\* first one
C28_Witness ==
    /\ pc = "exited"
    /\ printed = MsgSaved
    /\ Len(points_preview) = 2
    /\ points_preview[2][1] < points_preview[1][1]
    /\ points_preview[2][2] < points_preview[1][2]
    /\ Len(written) = 1
    /\ written[1][1] < written[1][2]

\* C29: the source point a handle maps to, round(x / scale), round(y / scale),
\* lies in 0..W-1 by 0..H-1 before any clamping, so the rectangle save_cropped
\* writes is the sorted pair of mapped points as they are, and its x_max is at
\* most W-1 and its y_max at most H-1.
C29_MappedHandlesInsideSource ==
    (pc = "returned" /\ fn_call[1] = "save_cropped")
    => LET W == orig_image[2]
           H == orig_image[1]
           ox(i) == RoundHalfEven(points_preview[i][1] * preview_scale[2],
                                  preview_scale[1])
           oy(i) == RoundHalfEven(points_preview[i][2] * preview_scale[2],
                                  preview_scale[1])
       IN  /\ \A i \in 1..Len(points_preview) :
                 /\ 0 <= ox(i) /\ ox(i) <= W - 1
                 /\ 0 <= oy(i) /\ oy(i) <= H - 1
           /\ \A k \in 1..Len(written) :
                 /\ written[k] = << Min(ox(1), ox(2)), Max(ox(1), ox(2)),
                                    Min(oy(1), oy(2)), Max(oy(1), oy(2)) >>
                 /\ written[k][2] <= W - 1
                 /\ written[k][4] <= H - 1

\* a crop was written from the two opposite corners of a downscaled preview,
\* and its x_max is the last column index W-1 of the source
C29_Witness ==
    /\ pc = "returned"
    /\ fn_call[1] = "save_cropped"
    /\ printed = MsgSaved
    /\ preview_scale[1] < preview_scale[2]
    /\ points_preview[1] = <<0, 0>>
    /\ points_preview[2] = <<preview_image[2] - 1, preview_image[1] - 1>>
    /\ Len(written) = 1
    /\ written[1][2] = orig_image[2] - 1

\* C30: for every image with W, H > 0 the preview dimensions compute_preview
\* uses, round(W * scale) and round(H * scale), are at least 1 and at most
\* MAX_PREVIEW_WIDTH and MAX_PREVIEW_HEIGHT.
C30_PreviewNonEmptyInBox ==
    (pc = "returned" /\ fn_call[1] = "compute_preview") =>
        LET new_h == fn_result[1][1][1]
            new_w == fn_result[1][1][2]
        IN  /\ 1 <= new_w /\ new_w <= MAX_PREVIEW_WIDTH
            /\ 1 <= new_h /\ new_h <= MAX_PREVIEW_HEIGHT

\* C31: with two handles, a button press within the grab radius (16 pixels) of
\* both of them makes the handle at index 0, the one created first, the active
\* handle and starts the drag, without moving either handle.
C31_FirstHandleWinsGrab ==
    [][(/\ pc = "wait" /\ pc' = "wait" /\ event' = "down"
        /\ Len(points_preview) = 2) =>
       \A p \in PointerPts :
        PointerDown(p[1], p[2]) =>
            LET near(i) ==
                    (p[1] - points_preview[i][1]) * (p[1] - points_preview[i][1])
                  + (p[2] - points_preview[i][2]) * (p[2] - points_preview[i][2])
                      <= 16 * 16
            IN  (near(1) /\ near(2)) =>
                    /\ active_idx' = Some(0)
                    /\ dragging' = TRUE
                    /\ points_preview' = points_preview]_vars

\* two handles at different places 11 pixels apart, the second one created
\* last and released; the press that grabbed the first one was within 16
\* pixels of it, hence of the second one too
C31_Witness ==
    /\ pc = "wait"
    /\ event = "down"
    /\ preview_image = <<900, 1200>>
    /\ points_preview = << <<100, 100>>, <<110, 105>> >>
    /\ active_idx = Some(0)
    /\ dragging

\* C32: no step other than the reset key makes the list of handles shorter:
\* mouse events, failed saves, unhandled keys and redraws keep or increase the
\* number of handles, so a session with two handles that goes on has two
\* handles unless the step was a reset.
C32_HandlesOnlyDropOnReset ==
    [][(pc \in {"draw", "wait"} /\ ~(pc = "wait" /\ pc' = "draw" /\ key' = "r")) =>
         /\ Len(points_preview') >= Len(points_preview)
         /\ (Len(points_preview) = 2 /\ pc' # "exited") =>
               Len(points_preview') = 2]_vars

\* a complete selection lived through a press away from both handles, a
\* refused save and a redraw
C32_Witness ==
    /\ pc = "wait"
    /\ key = "c"
    /\ printed = MsgInvalidRegion
    /\ event = "down"
    /\ Len(points_preview) = 2
    /\ ~dragging

=============================================================================
